---- MODULE Spec2Model ----
(***************************************************************************)
(* Model of flagga's FlagSet: flag registration, the argument tokenizer    *)
(* (Parse / parseNext / setValue), the value coercion layer (Value.Set and *)
(* the assign* functions) and the resolution of flags that the command     *)
(* line left unset from sources through extractors.                        *)
(*                                                                         *)
(* Go strings are sequences of one-character strings, so that the          *)
(* tokenizer's prefix tests, slicing and the strconv parsers are computed  *)
(* the way the code computes them.  A dynamically typed Go value           *)
(* (interface{}) is a record [t |-> dynamic type, v |-> payload].          *)
(***************************************************************************)
EXTENDS Integers, Sequences, FiniteSets, TLC

(***************************************************************************)
(* Bound of the model: the number of argument tokens plus the number of    *)
(* sources handed to one Parse call.                                       *)
(***************************************************************************)
MaxInput == 3

\* the number of Parse calls a caller makes at most
MaxCalls == 2

(***************************************************************************)
(* Strings                                                                 *)
(***************************************************************************)
DigitChars == <<"0", "1", "2", "3", "4", "5", "6", "7", "8", "9">>

IsDigit(c) == \E i \in 1..Len(DigitChars) : DigitChars[i] = c

DigitVal(c) == (CHOOSE i \in 1..Len(DigitChars) : DigitChars[i] = c) - 1

\* strings.HasPrefix
HasPrefix(s, p) == Len(s) >= Len(p) /\ SubSeq(s, 1, Len(p)) = p

\* strings.IndexRune: 0-based index of the first c in s, -1 when absent
LastIndexRune(s, c) ==
    IF \E i \in 1..Len(s) : s[i] = c
    THEN (CHOOSE i \in 1..Len(s) : s[i] = c /\ \A j \in (i + 1)..Len(s) : s[j] # c) - 1
    ELSE -1

IndexRune(s, c) ==
    IF \E i \in 1..Len(s) : s[i] = c
    THEN (CHOOSE i \in 1..Len(s) : s[i] = c /\ \A j \in 1..(i - 1) : s[j] # c) - 1
    ELSE -1

\* s[n:] with a 0-based n
From(s, n) == SubSeq(s, n + 1, Len(s))

\* s[:n] with a 0-based n
Upto(s, n) == SubSeq(s, 1, n)

RECURSIVE DigitsValue(_)
DigitsValue(s) ==
    IF s = <<>> THEN 0
    ELSE 10 * DigitsValue(Upto(s, Len(s) - 1)) + DigitVal(s[Len(s)])

AllDigits(s) == s # <<>> /\ \A i \in 1..Len(s) : IsDigit(s[i])

RECURSIVE NatString(_)
NatString(n) ==
    IF n < 10 THEN <<DigitChars[n + 1]>>
    ELSE NatString(n \div 10) \o <<DigitChars[(n % 10) + 1]>>

\* decimal rendering of an integer (fmt.Sprint of an int)
IntString(n) == IF n < 0 THEN <<"-">> \o NatString(-n) ELSE NatString(n)

(***************************************************************************)
(* Errors.  nil is Nil; every error is a record of the same shape, its     *)
(* detail the text the message carries (a token or a flag name).           *)
(***************************************************************************)
Nil == [kind |-> "nil", detail |-> <<>>]

Err(k, d) == [kind |-> k, detail |-> d]

ErrHelp == Err("flagga: help requested", <<>>)

(***************************************************************************)
(* strconv / time parsers.  Each returns [ok, n].  The argument strings of *)
(* the model are short, so the 64-bit range errors never arise.            *)
(***************************************************************************)
Unsigned(s) == IF s # <<>> /\ s[1] \in {"+", "-"} THEN From(s, 1) ELSE s

Sign(s) == IF s # <<>> /\ s[1] = "-" THEN -1 ELSE 1

\* strconv.ParseInt(s, 10, 64): an optional sign followed by decimal digits
ParseInt(s) ==
    IF AllDigits(Unsigned(s))
    THEN [ok |-> TRUE, n |-> Sign(s) * DigitsValue(Unsigned(s))]
    ELSE [ok |-> FALSE, n |-> 0]

\* strconv.ParseBool
ParseBool(s) ==
    IF s \in {<<"1">>, <<"t">>, <<"T">>, <<"t", "r", "u", "e">>,
              <<"T", "R", "U", "E">>, <<"T", "r", "u", "e">>}
    THEN [ok |-> TRUE, n |-> TRUE]
    ELSE IF s \in {<<"0">>, <<"f">>, <<"F">>, <<"f", "a", "l", "s", "e">>,
                   <<"F", "A", "L", "S", "E">>, <<"F", "a", "l", "s", "e">>}
    THEN [ok |-> TRUE, n |-> FALSE]
    ELSE [ok |-> FALSE, n |-> FALSE]

\* the number of leading digits of s
LeadingDigits(s) ==
    IF \E i \in 1..Len(s) : ~IsDigit(s[i])
    THEN (CHOOSE i \in 1..Len(s) : ~IsDigit(s[i]) /\ \A j \in 1..(i - 1) : IsDigit(s[j])) - 1
    ELSE Len(s)

\* the nanoseconds of a unit of time.ParseDuration; 0 for what is no unit
UnitNanos(unit) ==
    IF unit = <<"n", "s">> THEN 1
    ELSE IF unit = <<"u", "s">> THEN 1000
    ELSE IF unit = <<"m", "s">> THEN 1000000
    ELSE 0

\* digits followed by a unit
DurationGroup(sign, body, nd) ==
    IF nd > 0 /\ UnitNanos(From(body, nd)) # 0
    THEN [ok |-> TRUE, n |-> sign * DigitsValue(Upto(body, nd)) * UnitNanos(From(body, nd))]
    ELSE [ok |-> FALSE, n |-> 0]

\* time.ParseDuration on the strings of the model: "0", or an optional sign
\* and one group of decimal digits with a unit; a bare number has no unit and
\* is an error.  The result is in nanoseconds.
ParseDuration(s) ==
    IF Unsigned(s) = <<"0">> THEN [ok |-> TRUE, n |-> 0]
    ELSE DurationGroup(Sign(s), Unsigned(s), LeadingDigits(Unsigned(s)))

(***************************************************************************)
(* Dynamically typed values                                                *)
(***************************************************************************)
Val(t, v) == [t |-> t, v |-> v]

Str(s) == Val("string", s)

\* a float64 in decimal: sign, integer part, fraction digits
Float(neg, ip, fr) == Val("float64", [neg |-> neg, ip |-> ip, fr |-> fr])

IntTypes == {"int", "int64", "uint", "uint64"}

\* a conversion that rounds to the nearest integer
FloatRounded(f) ==
    IF f.fr # <<>> /\ DigitVal(f.fr[1]) >= 5
    THEN (IF f.neg THEN -(f.ip + 1) ELSE f.ip + 1)
    ELSE (IF f.neg THEN -f.ip ELSE f.ip)

\* int(f) for a float64 f: the fraction is discarded (truncation toward zero)
FloatToInt(f) == IF f.neg THEN -f.ip ELSE f.ip

\* fmt.Sprint of the dynamic values of the model
RECURSIVE Sprint(_)
Sprint(val) ==
    IF val.t = "string" THEN val.v
    ELSE IF val.t \in IntTypes THEN IntString(val.v)
    ELSE IF val.t = "bool"
    THEN (IF val.v THEN <<"t", "r", "u", "e">> ELSE <<"f", "a", "l", "s", "e">>)
    ELSE IF val.t = "float64"
    THEN (IF val.v.neg THEN <<"-">> ELSE <<>>) \o NatString(val.v.ip)
         \o (IF val.v.fr = <<>> THEN <<>> ELSE <<".">> \o val.v.fr)
    ELSE IF val.t = "[]interface{}"
    THEN (IF val.v = <<>> THEN <<"[", "]">>
          ELSE <<"[">> \o Sprint(val.v[1])
               \o (IF Len(val.v) = 1 THEN <<"]">>
                   ELSE <<" ">> \o Tail(Sprint(Val("[]interface{}", Tail(val.v))))))
    ELSE IF val.t = "nil" THEN <<"<", "n", "i", "l", ">">>
    ELSE <<"%", "!", "v">>

(***************************************************************************)
(* Value coercion: the assign* functions.  Each takes the destination's    *)
(* current content and the value to set and returns [err, val]: the error  *)
(* (Nil on success) and the destination's content after the call.          *)
(***************************************************************************)
Done(v) == [err |-> Nil, val |-> v]

Fail(e, v) == [err |-> e, val |-> v]

\* the text of a []byte or string value
IsText(val) == val.t \in {"string", "[]byte"}

\* what an assign function makes of a parser's result r
Parsed(r, msg, text, dst) == IF r.ok THEN Done(r.n) ELSE Fail(Err(msg, text), dst)

assignString(dst, val) ==
    IF IsText(val) THEN Done(val.v) ELSE Done(Sprint(val))

assignBool(dst, val) ==
    IF val.t = "bool" THEN Done(val.v)
    ELSE IF IsText(val)
    THEN Parsed(ParseBool(val.v), "strconv.ParseBool: invalid syntax", val.v, dst)
    ELSE Fail(Err("cannot assign type to uint64", <<>>), dst)

assignInt(dst, val) ==
    IF val.t \in IntTypes THEN Done(val.v)
    ELSE IF val.t = "float64" THEN Done(FloatToInt(val.v))
    ELSE IF IsText(val)
    THEN Parsed(ParseInt(val.v), "strconv.ParseInt: invalid syntax", val.v, dst)
    ELSE Fail(Err("cannot assign type to int", <<>>), dst)

assignDuration(dst, val) ==
    IF val.t \in IntTypes \cup {"time.Duration"} THEN Done(val.v)
    ELSE IF val.t = "float64" THEN Done(FloatToInt(val.v))
    ELSE IF IsText(val)
    THEN Parsed(ParseDuration(val.v), "time: invalid duration", val.v, dst)
    ELSE Fail(Err("cannot assign type to time.Duration", <<>>), dst)

\* the elements of a []interface{} or []string value as dynamic values
Elems(val) ==
    IF val.t = "[]interface{}" THEN val.v ELSE [i \in 1..Len(val.v) |-> Str(val.v[i])]

\* the first element of a nonempty set of numbers
Least(S) == CHOOSE i \in S : \A j \in S : i <= j

\* a list made with the length of rs and filled from the assignments rs, one
\* per element, up to the first that fails
Filled(rs, bad, zero) ==
    IF bad = {} THEN Done([i \in 1..Len(rs) |-> rs[i].val])
    ELSE Fail(rs[Least(bad)].err,
              [i \in 1..Len(rs) |-> IF i < Least(bad) THEN rs[i].val ELSE zero])

FillList(rs, zero) == Filled(rs, {i \in 1..Len(rs) : rs[i].err # Nil}, zero)

\* a single value r, coerced, is appended
Appended(dst, r) == IF r.err # Nil THEN Fail(r.err, dst) ELSE Done(Append(dst, r.val))

assignStringList(dst, val) ==
    IF val.t = "[]interface{}"
    THEN FillList([i \in 1..Len(val.v) |-> assignString(<<>>, val.v[i])], <<>>)
    ELSE IF val.t = "[]string" THEN Done(val.v)
    ELSE Appended(dst, assignString(<<>>, val))

assignIntList(dst, val) ==
    IF val.t \in {"[]interface{}", "[]string"}
    THEN FillList([i \in 1..Len(val.v) |-> assignInt(0, Elems(val)[i])], 0)
    ELSE IF val.t \in {"[]int", "[]uint", "[]int64", "[]uint64"} THEN Done(val.v)
    ELSE IF val.t = "[]float64"
    THEN Done([i \in 1..Len(val.v) |-> FloatToInt(val.v[i])])
    ELSE IF IsText(val) \/ val.t \in IntTypes \cup {"float64"}
    THEN Appended(dst, assignInt(0, val))
    ELSE Fail(Err("cannot assign type to []int", <<>>), dst)

\* the destination kinds of the model
Kinds == {"*string", "*bool", "*int", "*time.Duration", "*[]string", "*[]int"}

\* value.Set: dispatch on the destination's kind
Set(kind, dst, val) ==
    IF kind = "*string" THEN assignString(dst, val)
    ELSE IF kind = "*bool" THEN assignBool(dst, val)
    ELSE IF kind = "*int" THEN assignInt(dst, val)
    ELSE IF kind = "*time.Duration" THEN assignDuration(dst, val)
    ELSE IF kind = "*[]string" THEN assignStringList(dst, val)
    ELSE assignIntList(dst, val)

\* an isBool that knows no boolean destination
neverBool(kind) == FALSE

isBool(kind) == kind = "*bool"

isSlice(kind) == kind \in {"*[]string", "*[]int"}

(***************************************************************************)
(* Sources and extractors                                                  *)
(***************************************************************************)
\* the process environment
Environ ==
    ("A_S" :> <<"e">>) @@ ("A_T" :> <<"f">>) @@ ("A_M" :> <<"4">>)
    @@ ("B_S" :> <<"g">>) @@ ("B_N" :> <<"x">>)

EmptyMap == [k \in {} |-> Nil]

\* the JSON files on disk, decoded; a file not listed here cannot be read
JSONFiles ==
    ("a.json" :> (("s" :> Str(<<"j">>)) @@ ("t" :> Str(<<"k">>))
                  @@ ("n" :> Float(FALSE, 5, <<"5">>))))
    @@ ("b.json" :> (("s" :> Str(<<"q">>)) @@ ("n" :> Str(<<"x">>))))
    @@ ("l.json" :> (("m" :> Val("[]interface{}", <<Float(FALSE, 1, <<>>), Str(<<"x">>)>>))
                     @@ ("w" :> Val("[]interface{}", <<Str(<<"p">>), Float(FALSE, 1, <<>>)>>))))

EnvPrefix(prefix) == [type |-> "env", arg |-> prefix]

JSONVia(file) == [type |-> "json", arg |-> file]

\* Source.Open: the error it returns
sourceOpen(src) ==
    IF src.type = "json" /\ src.arg \notin DOMAIN JSONFiles
    THEN Err("open: no such file or directory", <<>>)
    ELSE Nil

\* what Open leaves in jsonSource.json
sourceLoad(src) ==
    IF src.type = "json" /\ src.arg \in DOMAIN JSONFiles
    THEN JSONFiles[src.arg] ELSE EmptyMap

\* whether a source has a key: os.LookupEnv, or the lookup in the decoded file
sourceHas(src, loaded, key) ==
    IF src.type = "env" THEN (src.arg \o key) \in DOMAIN Environ
    ELSE key \in DOMAIN loaded

\* the value a source has for a key
sourceValue(src, loaded, key) ==
    IF src.type = "env" THEN Str(Environ[src.arg \o key]) ELSE loaded[key]

\* the result of Source.Get after dst.Set returned r
Got(r) == [ok |-> r.err = Nil, err |-> r.err, val |-> r.val]

\* envSource.Get / jsonSource.Get: [ok, err, val], val the destination after
sourceGet(src, loaded, key, kind, dst) ==
    IF ~sourceHas(src, loaded, key) THEN [ok |-> FALSE, err |-> Nil, val |-> dst]
    ELSE Got(Set(kind, dst, sourceValue(src, loaded, key)))

Env(key) == [type |-> "env", key |-> key]

JSON(key) == [type |-> "json", key |-> key]

\* the calls a FlagSet makes on its collaborators
OpenEv(i) == [op |-> "Open", src |-> i, ext |-> 0, key |-> "", flag |-> <<>>]

CloseEv(i) == [op |-> "Close", src |-> i, ext |-> 0, key |-> "", flag |-> <<>>]

GetEv(i, key, name) == [op |-> "Get", src |-> i, ext |-> 0, key |-> key, flag |-> name]

ExtractEv(x, name) == [op |-> "Extract", src |-> 0, ext |-> x, key |-> "", flag |-> name]

\* the result of an extractor: r is what the last source it asked returned,
\* asked are the sources it asked, in order
Asked(r, asked, key, name) ==
    [ok |-> r.ok, err |-> r.err, val |-> r.val,
     calls |-> [k \in 1..Len(asked) |-> GetEv(asked[k], key, name)]]

\* the value of an expression, computed once: S is the set of that value alone
Once(S) == CHOOSE v \in S : TRUE

\* the indices in S, in increasing order
RECURSIVE Ascending(_)
Ascending(S) == IF S = {} THEN <<>> ELSE <<Least(S)>> \o Ascending(S \ {Least(S)})

\* the sources of srcs that are of type t
OfType(srcs, t) == {i \in 1..Len(srcs) : srcs[i].type = t}

\* the environment sources that have the key
envHits(e, srcs) ==
    {i \in OfType(srcs, "env") : sourceHas(srcs[i], EmptyMap, e.key)}

\* an envExtractor.Get that goes on to the next environment source when one
\* lacks the key
envExtractorGetAny(e, srcs, js, name, kind, dst) ==
    IF envHits(e, srcs) = {}
    THEN Asked([ok |-> FALSE, err |-> Nil, val |-> dst],
               Ascending(OfType(srcs, "env")), e.key, name)
    ELSE Asked(sourceGet(srcs[Least(envHits(e, srcs))], EmptyMap, e.key, kind, dst),
               Ascending({i \in OfType(srcs, "env") : i <= Least(envHits(e, srcs))}),
               e.key, name)

\* envExtractor.Get: only the first environment source is asked
envExtractorGet(e, srcs, js, name, kind, dst) ==
    IF OfType(srcs, "env") = {}
    THEN [ok |-> FALSE, err |-> Nil, val |-> dst, calls |-> <<>>]
    ELSE Asked(sourceGet(srcs[Least(OfType(srcs, "env"))], EmptyMap, e.key, kind, dst),
               <<Least(OfType(srcs, "env"))>>, e.key, name)

\* the JSON sources that have the key
jsonHits(e, srcs, js) ==
    {i \in OfType(srcs, "json") : sourceHas(srcs[i], js[i], e.key)}

\* jsonExtractor.Get: the JSON sources are asked in turn until one has the
\* key; hits are the ones that have it
jsonExtractorAsk(e, srcs, js, name, kind, dst, hits) ==
    IF hits = {}
    THEN Asked([ok |-> FALSE, err |-> Nil, val |-> dst],
               Ascending(OfType(srcs, "json")), e.key, name)
    ELSE Asked(sourceGet(srcs[Least(hits)], js[Least(hits)], e.key, kind, dst),
               Ascending({i \in OfType(srcs, "json") : i <= Least(hits)}), e.key, name)

jsonExtractorGet(e, srcs, js, name, kind, dst) ==
    Once({jsonExtractorAsk(e, srcs, js, name, kind, dst, hits) :
             hits \in {jsonHits(e, srcs, js)}})

\* Extractor.Get
extractorGet(e, srcs, js, name, kind, dst) ==
    IF e.type = "env" THEN envExtractorGet(e, srcs, js, name, kind, dst)
    ELSE jsonExtractorGet(e, srcs, js, name, kind, dst)

(***************************************************************************)
(* Flag declarations: what the registration methods hand to addFlag.       *)
(* init is the content of the destination before Parse: the zero value for *)
(* the methods that allocate it, the caller's variable for the ...Var      *)
(* methods.                                                                *)
(***************************************************************************)
Flag(name, kind, default, init, extractors) ==
    [Name |-> name, kind |-> kind, Default |-> default, init |-> init,
     Extractors |-> extractors]

StringFlag(name, default, extractors) ==
    Flag(name, "*string", Str(default), <<>>, extractors)

BoolFlag(name, extractors) ==
    Flag(name, "*bool", Val("bool", FALSE), FALSE, extractors)

IntFlag(name, default, extractors) ==
    Flag(name, "*int", Val("int", default), 0, extractors)

DurationFlag(name, default, extractors) ==
    Flag(name, "*time.Duration", Val("time.Duration", default), 0, extractors)

StringListFlag(name, default, extractors) ==
    Flag(name, "*[]string", Val("[]string", default), <<>>, extractors)

IntListFlag(name, default, extractors) ==
    Flag(name, "*[]int", Val("[]int", default), <<>>, extractors)

IntListVar(v, name, default, extractors) ==
    Flag(name, "*[]int", Val("[]int", default), v, extractors)

(***************************************************************************)
(* ErrorHandling                                                           *)
(***************************************************************************)
ContinueOnError == 0

ExitOnError == 1

PanicOnError == 2

ErrorHandlings == {ContinueOnError, ExitOnError, PanicOnError}

(***************************************************************************)
(* The callers of the model.  Each declares its flags in order and then    *)
(* calls Parse with argument tokens and sources taken from its own sets.   *)
(***************************************************************************)
Programs == <<
    \* two boolean flags, one of them named like the help alias
    [decls |-> <<BoolFlag(<<"b">>, <<>>), BoolFlag(<<"h">>, <<>>)>>,
     tokens |-> {<<"-", "b">>, <<"-", "-", "b">>, <<"-", "h">>, <<"f", "o", "o">>,
                 <<"-", "b", "=", "f", "a", "l", "s", "e">>, <<"-", "x">>,
                 <<"-", "-">>},
     srcs |-> {}],
    \* list flags: one bound to a slice that already has an element
    [decls |-> <<IntListVar(<<9>>, <<"l">>, <<7>>, <<Env("M")>>),
                 IntListFlag(<<"m">>, <<>>, <<Env("M"), JSON("m")>>),
                 StringListFlag(<<"w">>, <<<<"d">>>>, <<JSON("w")>>)>>,
     tokens |-> {<<"-", "l", "=", "1">>, <<"-", "m", "=", "1">>, <<"-", "m">>, <<"2">>,
                 <<"-", "m", "=", "a">>, <<"-", "w", "=", "a">>},
     srcs |-> {EnvPrefix("A_"), JSONVia("l.json")}],
    \* scalar flags set from the command line only
    [decls |-> <<StringFlag(<<"s">>, <<"d">>, <<>>), IntFlag(<<"n">>, 7, <<>>),
                 DurationFlag(<<"d">>, 3, <<>>)>>,
     tokens |-> {<<"-", "s", "=", "a">>, <<"-", "s", "=", "b">>, <<"-", "n", "=", "1">>,
                 <<"-", "n">>, <<"2">>, <<"-", "d", "=", "5", "n", "s">>,
                 <<"-", "d", "=", "1", "u", "s">>, <<"-", "s", "=", "a", "=", "b">>},
     srcs |-> {}],
    \* flags with extractors, resolved from environment and JSON sources
    [decls |-> <<StringFlag(<<"s">>, <<"d">>, <<Env("S"), JSON("s")>>),
                 StringFlag(<<"t">>, <<>>, <<JSON("t"), Env("T")>>),
                 IntFlag(<<"n">>, 7, <<JSON("n"), Env("N")>>)>>,
     tokens |-> {<<"-", "s", "=", "v">>, <<"-", "t">>, <<"w">>, <<"-", "x">>},
     srcs |-> {EnvPrefix("A_"), EnvPrefix("B_"), JSONVia("a.json"), JSONVia("b.json"),
               JSONVia("missing.json")}],
    \* two flags, one named like a help alias, and tokens that are malformed, unknown or ask for help
    [decls |-> <<IntFlag(<<"x">>, 7, <<>>), IntFlag(<<"h", "e", "l", "p">>, 3, <<>>)>>,
     tokens |-> {<<"-", "x", "=", "5">>, <<"-", "-", "-", "x", "=", "5">>, <<"-", "x", "=">>,
                 <<"-", "=", "5">>, <<"-", "y", "=", "5">>, <<"-", "-", "h", "e", "l", "p">>,
                 <<"-", "h", "e", "l", "p">>, <<"-", "-", "h">>},
     srcs |-> {}],
    \* a caller that declares the same name twice
    [decls |-> <<StringFlag(<<"a">>, <<"d">>, <<>>), StringFlag(<<"a">>, <<"e">>, <<>>)>>,
     tokens |-> {},
     srcs |-> {}]
>>

\* the sequences over S of length at most n
SeqsUpTo(S, n) == UNION {[1..k -> S] : k \in 0..n}

\* the inputs of a Parse call of program p
Inputs(p) ==
    {in \in SeqsUpTo(Programs[p].tokens, MaxInput) \X SeqsUpTo(Programs[p].srcs, MaxInput) :
        Len(in[1]) + Len(in[2]) <= MaxInput}

\* the inputs of each program
AllInputs == [p \in 1..Len(Programs) |-> Inputs(p)]

\* the inputs of a caller's later Parse calls: those of its first call again,
\* no input at all, or one token of its own with at most one source
Again(p, a, srcs) ==
    {<<a, srcs>>, <<<<>>, <<>>>>}
    \cup {<<<<t>>, <<>>>> : t \in Programs[p].tokens}
    \cup {<<<<t>>, <<s>>>> : t \in Programs[p].tokens, s \in Programs[p].srcs}

(***************************************************************************)
(* State                                                                   *)
(***************************************************************************)
VARIABLES
    prog,           \* the caller: an index into Programs
    declared,       \* how many of the caller's declarations have been made
    errorHandling,  \* fs.errorHandling
    flags,          \* fs.flags: name -> Flag
    flagOrder,      \* fs.flagOrder
    dest,           \* the destinations the flags' Values point to: name -> content
    parsed,         \* fs.parsed
    args,           \* fs.args: the positional arguments
    found,          \* fs.found: the names of the flags that were filled
    sources,        \* fs.sources
    json,           \* jsonSource.json of each source
    rest,           \* Parse's local args: the tokens not yet consumed
    visited,        \* the flags the resolution loop of Parse has been through
    ret,            \* what the last Parse call returned, or panicked with
    exit,           \* the statuses exit was called with
    pc,             \* where the caller or Parse is
    log,            \* the calls made on sources and extractors, in order
    argv,           \* the arguments of the Parse call that was not a no-op
    nparse,         \* history: the number of Parse calls made
    cli,            \* history: fs.found and the destinations when tokenizing ended
    failed,         \* history: the part of Parse that failed, "" if none has
    matched,        \* history: name -> the index of the extractor that filled it
    perr            \* history: the error parseNext returned to Parse, Nil if none

vars == <<prog, declared, errorHandling, flags, flagOrder, dest, parsed, args, found,
          sources, json, rest, visited, ret, exit, pc, log, argv, nparse, cli, failed,
          matched, perr>>

NoCli == [found |-> {}, dest |-> EmptyMap]

Init ==
    /\ prog \in 1..Len(Programs)
    /\ declared = 0
    /\ errorHandling \in ErrorHandlings
    /\ flags = EmptyMap
    /\ flagOrder = <<>>
    /\ dest = EmptyMap
    /\ parsed = FALSE
    /\ args = <<>>
    /\ found = {}
    /\ sources = <<>>
    /\ json = <<>>
    /\ rest = <<>>
    /\ visited = {}
    /\ ret = Nil
    /\ exit = <<>>
    /\ pc = "declare"
    /\ log = <<>>
    /\ argv = <<>>
    /\ nparse = 0
    /\ cli = NoCli
    /\ failed = ""
    /\ matched = EmptyMap
    /\ perr = Nil

(***************************************************************************)
(* The tokenizer.  setValue and parseNext work on the part of the FlagSet  *)
(* they change, st = [args, found, dest], and return it with the error.    *)
(***************************************************************************)
\* st after f.Value.Set returned r for the flag called name
Stored(st, name, r) == [err |-> r.err, st |-> [st EXCEPT !.dest[name] = r.val]]

\* f.Value.Set(val) for the flag called name, within st
setFlag(st, name, val) ==
    Once({Stored(st, name, r) : r \in {Set(flags[name].kind, st.dest[name], val)}})

\* whether setValue leaves a flag that already has a value alone
keepsFirst(st, name) == name \in st.found /\ ~isSlice(flags[name].kind)

setValue(st, name, value) ==
    IF keepsFirst(st, name) THEN [err |-> Nil, st |-> st]
    ELSE IF name \in st.found THEN setFlag(st, name, Str(value))
    ELSE IF name \notin DOMAIN flags THEN [err |-> Err("unknown flag", name), st |-> st]
    ELSE setFlag([st EXCEPT !.found = @ \cup {name}], name, Str(value))

\* the flag name of a token that starts with a dash
flagName(arg) == IF HasPrefix(arg, <<"-", "-">>) THEN From(arg, 2) ELSE From(arg, 1)

\* an isHelp that knows no help alias
neverHelp(name) == FALSE

isHelp(name) == name = <<"h">> \/ name = <<"h", "e", "l", "p">>

\* a parseNext that goes on to the next flag after it has set one
ConsumedTwo(r, remaining) ==
    [rem |-> IF r.err # Nil \/ remaining = <<>> THEN <<>> ELSE Tail(remaining),
     err |-> r.err, st |-> r.st]

\* what parseNext returns after a flag was set with result r: the error, or
\* the tokens that remain
Consumed(r, remaining) ==
    [rem |-> IF r.err # Nil THEN <<>> ELSE remaining, err |-> r.err, st |-> r.st]

\* a parseBare that wants the value before it looks the name up
parseBareValueFirst(st, name, toks) ==
    IF name \in DOMAIN flags /\ isBool(flags[name].kind)
    THEN Consumed(setFlag([st EXCEPT !.found = @ \cup {name}], name, Val("bool", TRUE)), toks)
    ELSE IF Len(toks) = 0 \/ HasPrefix(Head(toks), <<"-">>)
    THEN [rem |-> <<>>, err |-> Err("expecting value for flag", name), st |-> st]
    ELSE IF name \notin DOMAIN flags
    THEN [rem |-> <<>>, err |-> Err("unknown flag", name), st |-> st]
    ELSE Consumed(setValue(st, name, Head(toks)), Tail(toks))

\* a parseBare that takes whatever token follows as the value
parseBareAnyValue(st, name, toks) ==
    IF name \in DOMAIN flags /\ isBool(flags[name].kind)
    THEN Consumed(setFlag([st EXCEPT !.found = @ \cup {name}], name, Val("bool", TRUE)), toks)
    ELSE IF name \notin DOMAIN flags
    THEN [rem |-> <<>>, err |-> Err("unknown flag", name), st |-> st]
    ELSE IF Len(toks) = 0
    THEN [rem |-> <<>>, err |-> Err("expecting value for flag", name), st |-> st]
    ELSE Consumed(setValue(st, name, Head(toks)), Tail(toks))

\* a flag token without inline value: toks are the tokens after it
parseBare(st, name, toks) ==
    IF name \in DOMAIN flags /\ isBool(flags[name].kind)
    THEN Consumed(setFlag([st EXCEPT !.found = @ \cup {name}], name, Val("bool", TRUE)), toks)
    ELSE IF name \notin DOMAIN flags
    THEN [rem |-> <<>>, err |-> Err("unknown flag", name), st |-> st]
    ELSE IF Len(toks) = 0 \/ HasPrefix(Head(toks), <<"-">>)
    THEN [rem |-> <<>>, err |-> Err("expecting value for flag", name), st |-> st]
    ELSE Consumed(setValue(st, name, Head(toks)), Tail(toks))

\* a name=value that may have nothing after the =
parseInlineEmpty(st, arg, name, value, toks) == Consumed(setValue(st, name, value), toks)

\* a flag token name=value
parseInline(st, arg, name, value, toks) ==
    IF Len(value) = 0
    THEN [rem |-> <<>>, err |-> Err("invalid flag syntax", arg), st |-> st]
    ELSE Consumed(setValue(st, name, value), toks)

\* a parseFlag to which -- is a flag token like any other
parseFlagNoEnd(st, arg, name, toks) ==
    IF Len(name) = 0 \/ name[1] = "-" \/ name[1] = "="
    THEN [rem |-> <<>>, err |-> Err("invalid flag syntax", arg), st |-> st]
    ELSE IF isHelp(name) THEN [rem |-> <<>>, err |-> ErrHelp, st |-> st]
    ELSE IF IndexRune(name, "=") > 0
    THEN parseInline(st, arg, Upto(name, IndexRune(name, "=")),
                     From(name, IndexRune(name, "=") + 1), toks)
    ELSE parseBare(st, name, toks)

\* a token that is not positional: name is what follows its dashes
parseFlag(st, arg, name, toks) ==
    IF arg = <<"-", "-">>
    THEN [rem |-> <<>>, err |-> Nil, st |-> [st EXCEPT !.args = @ \o toks]]
    ELSE IF Len(name) = 0 \/ name[1] = "-" \/ name[1] = "="
    THEN [rem |-> <<>>, err |-> Err("invalid flag syntax", arg), st |-> st]
    ELSE IF isHelp(name) THEN [rem |-> <<>>, err |-> ErrHelp, st |-> st]
    ELSE IF IndexRune(name, "=") > 0
    THEN parseInline(st, arg, Upto(name, IndexRune(name, "=")),
                     From(name, IndexRune(name, "=") + 1), toks)
    ELSE parseBare(st, name, toks)

\* whether parseNext skips a token as a positional argument
isArg(arg) == Len(arg) < 2 \/ arg[1] # "-"

RECURSIVE parseNext(_, _)

\* a parseNext that hands its input back
parseNextStuck(st, toks) == [rem |-> toks, err |-> Nil, st |-> st]

\* a parseNext that drops the positional arguments
parseNextDropping(st, toks) ==
    IF Len(toks) = 0 THEN [rem |-> <<>>, err |-> Nil, st |-> st]
    ELSE IF isArg(Head(toks)) THEN parseNext(st, Tail(toks))
    ELSE parseFlag(st, Head(toks), flagName(Head(toks)), Tail(toks))

parseNext(st, toks) ==
    IF Len(toks) = 0 THEN [rem |-> <<>>, err |-> Nil, st |-> st]
    ELSE IF isArg(Head(toks))
    THEN parseNext([st EXCEPT !.args = Append(@, Head(toks))], Tail(toks))
    ELSE Once({parseFlag(s, arg, name, remaining) :
                  s \in {st}, arg \in {Head(toks)}, name \in {flagName(Head(toks))},
                  remaining \in {Tail(toks)}})

(***************************************************************************)
(* Resolution of one flag that the command line left unset                 *)
(***************************************************************************)
NoMatch(dst) == [ok |-> FALSE, err |-> Nil, val |-> dst, calls |-> <<>>, by |-> 0]

\* r, the result of a later part of the loop, after the calls made before it
After(calls, r) ==
    [ok |-> r.ok, err |-> r.err, val |-> r.val, calls |-> calls \o r.calls, by |-> r.by]

RECURSIVE extractFrom(_, _, _, _, _)

\* a loop over f.Extractors that a match does not end
ExtractedNoBreak(f, srcs, js, i, r) ==
    IF r.err # Nil \/ (r.ok /\ i = Len(f.Extractors))
    THEN [ok |-> r.ok, err |-> r.err, val |-> r.val,
          calls |-> <<ExtractEv(i, f.Name)>> \o r.calls, by |-> i]
    ELSE After(<<ExtractEv(i, f.Name)>> \o r.calls, extractFrom(f, srcs, js, r.val, i + 1))

\* a loop over f.Extractors that the error of an extractor does not end
ExtractedPastError(f, srcs, js, i, r) ==
    IF r.ok \/ (r.err # Nil /\ i = Len(f.Extractors))
    THEN [ok |-> r.ok, err |-> r.err, val |-> r.val,
          calls |-> <<ExtractEv(i, f.Name)>> \o r.calls, by |-> i]
    ELSE After(<<ExtractEv(i, f.Name)>> \o r.calls, extractFrom(f, srcs, js, r.val, i + 1))

\* the loop over f.Extractors after its i-th extractor returned r: an error
\* or a match ends it
Extracted(f, srcs, js, i, r) ==
    IF r.err # Nil \/ r.ok
    THEN [ok |-> r.ok, err |-> r.err, val |-> r.val,
          calls |-> <<ExtractEv(i, f.Name)>> \o r.calls, by |-> i]
    ELSE After(<<ExtractEv(i, f.Name)>> \o r.calls, extractFrom(f, srcs, js, r.val, i + 1))

\* the loop over f.Extractors from the i-th on: [ok, err, val, calls, by]
extractFrom(f, srcs, js, dst, i) ==
    IF i > Len(f.Extractors) THEN NoMatch(dst)
    ELSE Once({Extracted(f, srcs, js, i, r) :
                  r \in {extractorGet(f.Extractors[i], srcs, js, f.Name, f.kind, dst)}})

\* a resolution loop that passes over no flag
neverFound(name) == FALSE

NFlags == Cardinality(found)

NArg == Len(args)

Args == args

\* whether the resolution loop of Parse passes over a flag
isFound(name) == name \in found

\* the sources whose Open fails
failing(srcs) == {i \in 1..Len(srcs) : sourceOpen(srcs[i]) # Nil}

\* the last source Parse calls Open on
lastOpened(srcs) == IF failing(srcs) = {} THEN Len(srcs) ELSE Least(failing(srcs))

\* Open calls that go on after one has failed
opensAll(srcs) == [i \in 1..Len(srcs) |-> OpenEv(i)]

\* a deferred function that closes nothing
closesNone(srcs) == <<>>

\* the Open calls of Parse: in order, up to the first that fails
opens(srcs) == [i \in 1..lastOpened(srcs) |-> OpenEv(i)]

\* the Close calls of the function Parse defers
closes(srcs) == [i \in 1..Len(srcs) |-> CloseEv(i)]

(***************************************************************************)
(* Actions                                                                 *)
(***************************************************************************)
\* a registration that replaces the flag of the same name before it fails
AddedOver(f) ==
    /\ declared' = declared + 1
    /\ flagOrder' = Append(flagOrder, f.Name)
    /\ flags' = [n \in DOMAIN flags \cup {f.Name} |-> IF n = f.Name THEN f ELSE flags[n]]
    /\ dest' = [n \in DOMAIN dest \cup {f.Name} |-> IF n = f.Name THEN f.init ELSE dest[n]]
    /\ pc' = IF f.Name \in DOMAIN flags THEN "abort" ELSE pc

\* the registration of f
Added(f) ==
    /\ declared' = declared + 1
    /\ IF f.Name \in DOMAIN flags
       THEN /\ pc' = "abort"
            /\ UNCHANGED <<flags, flagOrder, dest>>
       ELSE /\ flagOrder' = Append(flagOrder, f.Name)
            /\ flags' = flags @@ (f.Name :> f)
            /\ dest' = dest @@ (f.Name :> f.init)
            /\ UNCHANGED pc

\* the caller makes its next declaration
addFlag ==
    /\ pc = "declare"
    /\ declared < Len(Programs[prog].decls)
    /\ Added(Programs[prog].decls[declared + 1])
    /\ UNCHANGED <<prog, errorHandling, parsed, args, found, sources, json, rest,
                   visited, ret, exit, log, argv, nparse, cli, failed, matched, perr>>

\* a Parse that never returns at once
neverParsed == FALSE

\* whether Parse returns at once
alreadyParsed == parsed

\* Parse up to its tokenizing loop
Parse(a, srcs) ==
    /\ pc \in {"declare", "returned", "panicked"}
    /\ declared = Len(Programs[prog].decls)
    /\ nparse < MaxCalls
    /\ nparse' = nparse + 1
    /\ ret' = Nil
    /\ IF alreadyParsed
       THEN /\ pc' = "returned"
            /\ UNCHANGED <<parsed, sources, rest, argv, log, visited, json>>
       ELSE /\ parsed' = TRUE
            /\ sources' = srcs
            /\ rest' = a
            /\ argv' = a
            /\ log' = <<>>
            /\ visited' = {}
            /\ json' = [i \in 1..Len(srcs) |-> EmptyMap]
            /\ pc' = "tokenize"
    /\ UNCHANGED <<prog, declared, errorHandling, flags, flagOrder, dest, args, found, exit,
                   cli, failed, matched, perr>>

\* a Parse that defers the closing of the sources before it tokenizes
TokenizedDeferred(r) ==
    /\ args' = r.st.args
    /\ found' = r.st.found
    /\ dest' = r.st.dest
    /\ rest' = r.rem
    /\ perr' = r.err
    /\ IF r.err # Nil
       THEN /\ failed' = "tokenize"
            /\ UNCHANGED cli
            /\ IF errorHandling = ContinueOnError
               THEN pc' = "defer" /\ ret' = r.err /\ UNCHANGED exit
               ELSE IF errorHandling = PanicOnError
               THEN pc' = "panicked" /\ ret' = r.err /\ UNCHANGED exit
               ELSE pc' = "exited" /\ exit' = Append(exit, 2) /\ UNCHANGED ret
       ELSE /\ pc' = IF Len(r.rem) = 0 THEN "open" ELSE "tokenize"
            /\ cli' = IF Len(r.rem) = 0 THEN [found |-> r.st.found, dest |-> r.st.dest]
                      ELSE cli
            /\ UNCHANGED <<ret, exit, failed>>

\* what Parse does with r, the result of a parseNext call
Tokenized(r) ==
    /\ args' = r.st.args
    /\ found' = r.st.found
    /\ dest' = r.st.dest
    /\ rest' = r.rem
    /\ perr' = r.err
    /\ IF r.err # Nil
       THEN /\ failed' = "tokenize"
            /\ UNCHANGED cli
            /\ IF errorHandling = ContinueOnError
               THEN pc' = "returned" /\ ret' = r.err /\ UNCHANGED exit
               ELSE IF errorHandling = PanicOnError
               THEN pc' = "panicked" /\ ret' = r.err /\ UNCHANGED exit
               ELSE pc' = "exited" /\ exit' = Append(exit, 2) /\ UNCHANGED ret
       ELSE /\ pc' = IF Len(r.rem) = 0 THEN "open" ELSE "tokenize"
            /\ cli' = IF Len(r.rem) = 0 THEN [found |-> r.st.found, dest |-> r.st.dest]
                      ELSE cli
            /\ UNCHANGED <<ret, exit, failed>>

\* one turn of Parse's tokenizing loop: a parseNext call and what follows it
ParseLoop ==
    /\ pc = "tokenize"
    /\ \E r \in {parseNext([args |-> args, found |-> found, dest |-> dest], rest)} :
           Tokenized(r)
    /\ UNCHANGED <<prog, declared, errorHandling, flags, flagOrder, parsed, sources, json,
                   visited, log, argv, nparse, matched>>

\* the sources are opened in order, up to the first that fails
ParseOpen ==
    /\ pc = "open"
    /\ log' = log \o opens(sources)
    /\ json' = [i \in 1..Len(sources) |->
                   IF i <= lastOpened(sources) THEN sourceLoad(sources[i]) ELSE EmptyMap]
    /\ IF failing(sources) = {}
       THEN pc' = "resolve" /\ UNCHANGED <<ret, failed>>
       ELSE /\ pc' = "defer"
            /\ ret' = sourceOpen(sources[lastOpened(sources)])
            /\ failed' = "open"
    /\ UNCHANGED <<prog, declared, errorHandling, flags, flagOrder, dest, parsed, args,
                   found, sources, rest, visited, exit, argv, nparse, cli, matched, perr>>

\* a flag that is marked found and keeps what its destination had
NotDefaulted(name, d) ==
    /\ found' = found \cup {name}
    /\ UNCHANGED <<dest, pc, ret, failed, matched>>

\* the flag called name gets its default: d is what Set returned
Defaulted(name, d) ==
    /\ found' = found \cup {name}
    /\ dest' = [dest EXCEPT ![name] = d.val]
    /\ IF d.err # Nil
       THEN pc' = "defer" /\ ret' = d.err /\ failed' = "default"
       ELSE UNCHANGED <<pc, ret, failed>>
    /\ UNCHANGED matched

\* a resolution that gives the default to a flag an extractor has matched
ResolvedThenDefaulted(name, r) ==
    /\ log' = log \o r.calls
    /\ IF r.err # Nil
       THEN /\ dest' = [dest EXCEPT ![name] = r.val]
            /\ ret' = r.err
            /\ pc' = "defer"
            /\ failed' = "extract"
            /\ UNCHANGED <<found, matched>>
       ELSE /\ matched' = IF r.ok THEN matched @@ (name :> r.by) ELSE matched
            /\ found' = found \cup {name}
            /\ dest' = [dest EXCEPT ![name] =
                            Set(flags[name].kind, r.val, flags[name].Default).val]
            /\ UNCHANGED <<pc, ret, failed>>

\* the flag called name after the loop over its extractors returned r
Resolved(name, r) ==
    /\ log' = log \o r.calls
    /\ IF r.err # Nil
       THEN /\ dest' = [dest EXCEPT ![name] = r.val]
            /\ ret' = r.err
            /\ pc' = "defer"
            /\ failed' = "extract"
            /\ UNCHANGED <<found, matched>>
       ELSE IF r.ok
       THEN /\ dest' = [dest EXCEPT ![name] = r.val]
            /\ matched' = matched @@ (name :> r.by)
            /\ UNCHANGED <<found, ret, pc, failed>>
       ELSE \E d \in {Set(flags[name].kind, r.val, flags[name].Default)} :
                Defaulted(name, d)

\* one turn of the loop over fs.flags
ParseResolve(name) ==
    /\ pc = "resolve"
    /\ name \in DOMAIN flags \ visited
    /\ visited' = visited \cup {name}
    /\ IF isFound(name)
       THEN UNCHANGED <<dest, found, log, ret, pc, failed, matched>>
       ELSE \E r \in {extractFrom(flags[name], sources, json, dest[name], 1)} :
                Resolved(name, r)
    /\ UNCHANGED <<prog, declared, errorHandling, flags, flagOrder, parsed, args, sources,
                   json, rest, exit, argv, nparse, cli, perr>>

\* Parse returns from its resolution part: the deferred function closes the sources
ParseDefer ==
    /\ IF pc = "resolve" THEN visited = DOMAIN flags ELSE pc = "defer"
    /\ log' = log \o closes(sources)
    /\ pc' = "returned"
    /\ UNCHANGED <<prog, declared, errorHandling, flags, flagOrder, dest, parsed, args,
                   found, sources, json, rest, visited, ret, exit, argv, nparse, cli,
                   failed, matched, perr>>

Next ==
    \/ addFlag
    \/ \E in \in (IF parsed THEN Again(prog, argv, sources) ELSE AllInputs[prog]) :
           Parse(in[1], in[2])
    \/ ParseLoop
    \/ ParseOpen
    \/ \E name \in DOMAIN flags : ParseResolve(name)
    \/ ParseDefer

Spec == Init /\ [][Next]_vars

\* Parse is a function call that runs on one thread to its end: once it is
\* called, the next turn of its loops, the Open calls and the deferred
\* function are taken.  Whether and when the caller declares a flag or calls
\* Parse is up to the caller.
FairSpec ==
    /\ Spec
    /\ WF_vars(ParseLoop)
    /\ WF_vars(ParseOpen)
    /\ WF_vars(\E name \in DOMAIN flags : ParseResolve(name))
    /\ WF_vars(ParseDefer)

(***************************************************************************)
(* Value.Set on the integer kinds, called on its own: a caller wraps a     *)
(* pointer with NewValue and sets a value.  The float64 values carry a     *)
(* decimal exponent e, so that values beyond every integer type are among  *)
(* them.  An integer of 64 bits is a Word: an offset from 0, from the      *)
(* least or from the greatest value of its type.                           *)
(***************************************************************************)
\* the greatest integer part of the float64 values a caller sets
MaxWhole == 3

\* the number of Set calls a caller makes at most
MaxSets == 1

IntKinds == {"*int", "*int64", "*uint", "*uint64"}

Word(edge, off) == [edge |-> edge, off |-> off]

Exact(n) == Word("0", n)

\* the float64 values a caller sets
Floats ==
    {Val("float64", [neg |-> neg, ip |-> ip, fr |-> fr, e |-> e]) :
        neg \in BOOLEAN, ip \in 0..MaxWhole,
        fr \in {<<>>, <<"1", "4">>, <<"5">>, <<"9", "9">>}, e \in {0, 30}}

\* the values a caller sets that are no float64
Others == {Str(<<"2">>), Str(<<"-", "2">>), Str(<<"x">>), Val("bool", TRUE)}

IsUnsigned(kind) == kind \in {"*uint", "*uint64"}

\* whether the integer type of a kind can represent f without its fraction
Representable(kind, f) ==
    /\ f.e = 0 \/ (f.ip = 0 /\ f.fr = <<>>)
    /\ IsUnsigned(kind) => FloatToInt(f) >= 0

\* T(f) for an integer type T of 64 bits: the fraction is discarded; when T
\* cannot represent the result the conversion succeeds and its value is left
\* to the implementation, which saturates at an end of the range, wraps
\* around or gives the least value
Converted(kind, f) ==
    IF Representable(kind, f) THEN {Exact(FloatToInt(f))}
    ELSE {Word("max", 0), IF IsUnsigned(kind) THEN Exact(0) ELSE Word("min", 0)}
         \cup (IF f.e = 0 THEN {Word("max", FloatToInt(f) + 1)} ELSE {Exact(0)})

\* strconv.ParseUint: decimal digits, no sign
ParseUint(s) ==
    IF AllDigits(s) THEN [ok |-> TRUE, n |-> Exact(DigitsValue(s))]
    ELSE [ok |-> FALSE, n |-> Exact(0)]

\* strconv.ParseInt, its result as a Word
ParseWord(s) == [ok |-> ParseInt(s).ok, n |-> Exact(ParseInt(s).n)]

\* assignInt, assignInt64, assignUint and assignUint64 on the values of the
\* model: the results [err, val] the call can have
assignInteger(kind, dst, val) ==
    IF val.t = "float64" THEN {Done(w) : w \in Converted(kind, val.v)}
    ELSE IF IsText(val)
    THEN {Parsed(IF IsUnsigned(kind) THEN ParseUint(val.v) ELSE ParseWord(val.v),
                 "strconv: invalid syntax", val.v, dst)}
    ELSE {Fail(Err("cannot assign type", <<>>), dst)}

SetEv(val) == [op |-> "Set", src |-> 0, ext |-> 0, key |-> "", flag |-> <<"v">>, val |-> val]

\* a caller with one integer variable v, wrapped with NewValue
ValueInit ==
    /\ prog = 0
    /\ declared = 0
    /\ errorHandling = ContinueOnError
    /\ flags \in {(<<"v">> :> Flag(<<"v">>, kind, Val("int", 0), Exact(0), <<>>)) :
                     kind \in IntKinds}
    /\ flagOrder = <<>>
    /\ dest = (<<"v">> :> Exact(0))
    /\ parsed = FALSE
    /\ args = <<>>
    /\ found = {}
    /\ sources = <<>>
    /\ json = <<>>
    /\ rest = <<>>
    /\ visited = {}
    /\ ret = Nil
    /\ exit = <<>>
    /\ pc = "value"
    /\ log = <<>>
    /\ argv = <<>>
    /\ nparse = 0
    /\ cli = NoCli
    /\ failed = ""
    /\ matched = EmptyMap
    /\ perr = Nil

\* Set(val) returned r
HasSet(val, r) ==
    /\ log' = Append(log, SetEv(val))
    /\ dest' = (<<"v">> :> r.val)
    /\ ret' = r.err
    /\ UNCHANGED <<prog, declared, errorHandling, flags, flagOrder, parsed, args, found,
                   sources, json, rest, visited, exit, pc, argv, nparse, cli, failed,
                   matched, perr>>

\* the caller sets a float64
SetFloat ==
    /\ pc = "value"
    /\ Len(log) < MaxSets
    /\ \E val \in Floats :
           \E r \in assignInteger(flags[<<"v">>].kind, dest[<<"v">>], val) : HasSet(val, r)

\* the caller sets a value of another type
SetOther ==
    /\ pc = "value"
    /\ Len(log) < MaxSets
    /\ \E val \in Others :
           \E r \in assignInteger(flags[<<"v">>].kind, dest[<<"v">>], val) : HasSet(val, r)

ValueNext == SetFloat \/ SetOther

ValueSpec == ValueInit /\ [][ValueNext]_vars

(***************************************************************************)
(* What the log and the command line say                                   *)
(***************************************************************************)
\* the calls of one kind made for the flag called name, in order
CallsFor(op, name) == SelectSeq(log, LAMBDA e : e.op = op /\ e.flag = name)

\* the indices of the calls of one kind, in the order they were made
Called(op) == [k \in 1..Len(SelectSeq(log, LAMBDA e : e.op = op)) |->
                  SelectSeq(log, LAMBDA e : e.op = op)[k].src]

\* the positions in the log of the calls of one kind
At(op) == {k \in 1..Len(log) : log[k].op = op}

\* Parse has come to an end: it returned, panicked, or called exit
Ended == pc \in {"returned", "panicked", "exited"}

RECURSIVE Supplied(_, _)

\* the values toks supply to the flag called name, in order, when tok, the
\* token before them without its dashes, is a flag
SuppliedBy(name, tok, toks) ==
    IF IndexRune(tok, "=") > 0
    THEN (IF Upto(tok, IndexRune(tok, "=")) = name
          THEN <<Str(From(tok, IndexRune(tok, "=") + 1))>> ELSE <<>>)
         \o Supplied(name, toks)
    ELSE IF tok \in DOMAIN flags /\ flags[tok].kind = "*bool"
    THEN (IF tok = name THEN <<Val("bool", TRUE)>> ELSE <<>>) \o Supplied(name, toks)
    ELSE IF toks = <<>> THEN <<>>
    ELSE (IF tok = name THEN <<Str(Head(toks))>> ELSE <<>>) \o Supplied(name, Tail(toks))

\* the values a command line that tokenizes without error supplies to the
\* flag called name, in order of occurrence
Supplied(name, toks) ==
    IF toks = <<>> \/ Head(toks) = <<"-", "-">> THEN <<>>
    ELSE IF isArg(Head(toks)) THEN Supplied(name, Tail(toks))
    ELSE SuppliedBy(name, flagName(Head(toks)), Tail(toks))

\* a value of the command line, coerced to the kind of a scalar flag
Coerced(kind, val) == Set(kind, <<>>, val).val

\* whether the i-th extractor of the flag called name finds a value in the
\* sources, asked on its own
CanMatch(name, i) ==
    extractorGet(flags[name].Extractors[i], sources, json, name, flags[name].kind,
                 flags[name].init).ok

\* the destination the i-th extractor of the flag called name leaves
ValueOf(name, i) ==
    extractorGet(flags[name].Extractors[i], sources, json, name, flags[name].kind,
                 flags[name].init).val

\* the key the flag called name asks sources of type t for, <<>> if none
KeysOf(name, t) ==
    {flags[name].Extractors[i].key :
        i \in {j \in 1..Len(flags[name].Extractors) : flags[name].Extractors[j].type = t}}

\* the sources that have a value for the flag called name
Having(name) ==
    {i \in 1..Len(sources) :
        \E key \in KeysOf(name, sources[i].type) : sourceHas(sources[i], json[i], key)}

\* the value the i-th source has for the flag called name
SourceValue(name, i) ==
    sourceGet(sources[i], json[i], CHOOSE key \in KeysOf(name, sources[i].type) : TRUE,
              flags[name].kind, flags[name].init).val

\* how many calls of one kind were made on the i-th source
Count(op, i) == Cardinality({k \in At(op) : log[k].src = i})

\* the log of a Parse that made k Open calls on its n sources
Lifecycle(k, n) ==
    /\ Len(log) >= k + n
    /\ SubSeq(log, 1, k) = [i \in 1..k |-> OpenEv(i)]
    /\ SubSeq(log, Len(log) - n + 1, Len(log)) = [i \in 1..n |-> CloseEv(i)]
    /\ \A j \in (k + 1)..(Len(log) - n) : log[j].op \in {"Extract", "Get"}
    /\ \A i \in 1..(k - 1) : sourceOpen(sources[i]) = Nil
    /\ k < n => (k >= 1 /\ sourceOpen(sources[k]) # Nil /\ failed = "open")
    /\ failed = "open" => \A j \in 1..Len(log) : log[j].op \notin {"Extract", "Get"}

\* toks without the positional arguments it starts with
RECURSIVE DropArgs(_)
DropArgs(toks) ==
    IF toks = <<>> \/ ~isArg(Head(toks)) THEN toks ELSE DropArgs(Tail(toks))

\* whether toks starts with the bare token of a boolean flag
BareBoolean(toks) ==
    /\ toks # <<>>
    /\ Head(toks) # <<"-", "-">>
    /\ flagName(Head(toks)) \in DOMAIN flags
    /\ flags[flagName(Head(toks))].kind = "*bool"

\* the step sets the boolean flag of the token toks starts with
BecomesTrue(toks) ==
    /\ dest'[flagName(Head(toks))] = TRUE
    /\ flagName(Head(toks)) \in found'
    /\ rest' = Tail(toks)

\* the kind of scalar a list kind holds
ElemKind(kind) == IF kind = "*[]int" THEN "*int" ELSE "*string"

\* the value the sources have for the extractor that filled the flag called
\* name, as the source hands it to Set
MatchedValue(name) ==
    IF flags[name].Extractors[matched[name]].type = "env"
    THEN Str(Environ[sources[Least(OfType(sources, "env"))].arg
                     \o flags[name].Extractors[matched[name]].key])
    ELSE json[Least(jsonHits(flags[name].Extractors[matched[name]], sources, json))]
             [flags[name].Extractors[matched[name]].key]

\* the position of the first = in a name, 0 if it has none
EqAt(name) ==
    IF \E i \in 1..Len(name) : name[i] = "="
    THEN CHOOSE i \in 1..Len(name) : name[i] = "=" /\ \A j \in 1..(i - 1) : name[j] # "="
    ELSE 0

\* whether toks starts with a flag token: one with a dash and more, not --
FlagToken(toks) ==
    /\ toks # <<>>
    /\ Len(Head(toks)) >= 2
    /\ Head(toks)[1] = "-"
    /\ Head(toks) # <<"-", "-">>

\* whether a name, a token without its one or two dashes, is malformed
Malformed(name) ==
    \/ name = <<>>
    \/ name[1] = "-"
    \/ name[1] = "="
    \/ EqAt(name) = Len(name)

\* the step ends Parse while tokenizing, with e as the error of parseNext, and
\* changes no destination and not the found set
FailsWith(e) ==
    /\ perr' = e
    /\ failed' = "tokenize"
    /\ dest' = dest
    /\ found' = found
    /\ pc' = IF errorHandling = ContinueOnError THEN "returned"
             ELSE IF errorHandling = PanicOnError THEN "panicked" ELSE "exited"
    /\ errorHandling # ExitOnError => ret' = e

\* the part of a name before its first =, the whole name if it has none
NamePart(name) == IF EqAt(name) > 0 THEN SubSeq(name, 1, EqAt(name) - 1) ELSE name

\* whether toks starts with a well-formed flag token that asks for no help
PlainFlag(toks) ==
    /\ FlagToken(toks)
    /\ ~Malformed(flagName(Head(toks)))
    /\ flagName(Head(toks)) \notin {<<"h">>, <<"h", "e", "l", "p">>}

\* whether toks starts with the bare token of a registered flag that is not
\* boolean, with no token after it or one that begins with a dash
LacksValue(toks) ==
    /\ FlagToken(toks)
    /\ ~Malformed(flagName(Head(toks)))
    /\ flagName(Head(toks)) \in DOMAIN flags
    /\ flags[flagName(Head(toks))].kind # "*bool"
    /\ (Len(toks) = 1 \/ toks[2][1] = "-")

\* the positional arguments toks starts with
TakeArgs(toks) == SubSeq(toks, 1, Len(toks) - Len(DropArgs(toks)))

\* the part of a name after its first =
ValuePart(name) == SubSeq(name, EqAt(name) + 1, Len(name))

\* whether toks starts with a well-formed token name=value of a registered flag
InlineFlag(toks) ==
    /\ PlainFlag(toks)
    /\ EqAt(flagName(Head(toks))) > 0
    /\ NamePart(flagName(Head(toks))) \in DOMAIN flags

\* the step puts r.val, where r is what Set returns, into the destination of
\* the flag called name, marks the flag found and takes the one token toks
\* starts with
TakesInline(name, r, toks) ==
    r.err = Nil =>
        /\ dest' = [dest EXCEPT ![name] = r.val]
        /\ name \in found'
        /\ rest' = Tail(toks)
        /\ perr' = Nil

\* the step takes the one token toks starts with and changes nothing
Ignores(toks) ==
    /\ dest' = dest
    /\ found' = found
    /\ rest' = Tail(toks)
    /\ perr' = Nil

\* the flag and the value of the inline token toks starts with
InlineName(toks) == NamePart(flagName(Head(toks)))

InlineSet(toks) ==
    Set(flags[InlineName(toks)].kind, dest[InlineName(toks)],
        Str(ValuePart(flagName(Head(toks)))))

RECURSIVE Positional(_)

\* the positional arguments among toks, the tokens after a flag token with
\* the name given
PositionalAfter(name, toks) ==
    IF EqAt(name) > 0 \/ (name \in DOMAIN flags /\ flags[name].kind = "*bool")
    THEN Positional(toks)
    ELSE IF toks = <<>> THEN <<>>
    ELSE Positional(Tail(toks))

\* the tokens of a command line that tokenizes without error which are
\* neither flag tokens nor values of a flag, and every token after a --
Positional(toks) ==
    IF toks = <<>> THEN <<>>
    ELSE IF Len(Head(toks)) < 2 \/ Head(toks)[1] # "-"
    THEN <<Head(toks)>> \o Positional(Tail(toks))
    ELSE IF Head(toks) = <<"-", "-">> THEN Tail(toks)
    ELSE PositionalAfter(flagName(Head(toks)), Tail(toks))


\* the error the i-th extractor of the flag called name returns when it is
\* asked in the current state
ExtractorErr(name, i) ==
    extractorGet(flags[name].Extractors[i], sources, json, name, flags[name].kind,
                 dest[name]).err

\* the extractors of the flag called name that return an error
Erring(name) == {i \in 1..Len(flags[name].Extractors) : ExtractorErr(name, i) # Nil}

\* the extractors that l, a log, says were asked, in order
ExtractsIn(l) == SelectSeq(l, LAMBDA e : e.op = "Extract")

\* the step is the failure of the first erring extractor of the flag called
\* name: that extractor is the last one asked, its error is what Parse is
\* about to return, the flag is not marked found and no other flag is touched
FailsAtExtractor(name) ==
    /\ Erring(name) # {}
    /\ ret' = ExtractorErr(name, Least(Erring(name)))
    /\ pc' = "defer"
    /\ ExtractsIn(log') =
           ExtractsIn(log) \o [i \in 1..Least(Erring(name)) |-> ExtractEv(i, name)]
    /\ found' = found
    /\ matched' = matched
    /\ \A other \in DOMAIN flags \ {name} : dest'[other] = dest[other]


\* the declaration the caller makes next
NextDecl == Programs[prog].decls[declared + 1]

\* the first declaration the caller made of the flag called name
FirstDecl(name) ==
    Programs[prog].decls[Least({i \in 1..declared : Programs[prog].decls[i].Name = name})]

\* how often a name is in the registration order
TimesIn(order, name) == Cardinality({i \in 1..Len(order) : order[i] = name})


\* the value the last Set call was made with
LastSet == log[Len(log)].val

\* Set has just been called with a float64 on the variable v
FloatWasSet == pc = "value" /\ log # <<>> /\ LastSet.t = "float64"

\* the whole number a float64 of no exponent has before its decimal point
Whole(f) == (IF f.neg THEN -1 ELSE 1) * f.ip


\* the zero value of the variable a kind points to
Zero(kind) ==
    IF kind = "*bool" THEN FALSE
    ELSE IF kind \in {"*int", "*time.Duration"} THEN 0
    ELSE <<>>

RECURSIVE TokenizeAll(_, _)

\* the tokenizing loop of Parse after a parseNext call returned r
TokenizedAll(r) ==
    IF r.err # Nil \/ Len(r.rem) = 0 THEN r.st ELSE TokenizeAll(r.st, r.rem)

\* the tokenizing loop of Parse, run on st and toks: the st it ends with
TokenizeAll(st, toks) == TokenizedAll(parseNext(st, toks))

\* what resolution leaves in a destination after the loop over the flag's
\* extractors returned r without error
ResolvedTo(name, r) ==
    IF r.ok THEN r.val ELSE Set(flags[name].kind, r.val, flags[name].Default).val

\* what the destination of the flag called name holds at the end of a Parse
\* of the same arguments and sources whose tokenizing ended with st
EndsWith(name, st) ==
    IF name \in st.found THEN st.dest[name]
    ELSE ResolvedTo(name, extractFrom(flags[name], sources, json, st.dest[name], 1))

\* the same Parse, made when every destination held the zero value of its type
FromZero(name) ==
    EndsWith(name, TokenizeAll([args |-> <<>>, found |-> {},
                                dest |-> [n \in DOMAIN flags |-> Zero(flags[n].kind)]],
                               argv))


\* the number of tokens of the flag occurrence toks starts with: the token
\* alone when it has an inline value or names a boolean flag, else the token
\* and its value
Occurrence(toks) ==
    IF EqAt(flagName(Head(toks))) > 0
       \/ (flagName(Head(toks)) \in DOMAIN flags /\ flags[flagName(Head(toks))].kind = "*bool")
       \/ Len(toks) = 1
    THEN 1 ELSE 2

\* the step changes the destination and the found mark of no flag but the
\* one that toks starts with
TouchesOnly(toks) ==
    \A n \in DOMAIN flags \ {NamePart(flagName(Head(toks)))} :
        dest'[n] = dest[n] /\ (n \in found' <=> n \in found)

\* the step is a parseNext call on toks, tokens that start with the
\* positional arguments lead and go on with the tokens after
OneOccurrence(lead, after) ==
    IF after = <<>>
    THEN args' = args \o lead /\ rest' = <<>> /\ dest' = dest /\ found' = found
    ELSE IF Head(after) = <<"-", "-">>
    THEN args' = args \o lead \o Tail(after) /\ rest' = <<>> /\ dest' = dest /\ found' = found
    ELSE /\ args' = args \o lead
         /\ rest' = SubSeq(after, Occurrence(after) + 1, Len(after))
         /\ TouchesOnly(after)


\* the position after the Get calls that follow the k-th call of the log
StopAt(k) ==
    CHOOSE j \in (k + 1)..(Len(log) + 1) :
        /\ \A i \in (k + 1)..(j - 1) : log[i].op = "Get"
        /\ j = Len(log) + 1 \/ log[j].op # "Get"

\* the sources asked by the extractor whose call is the k-th of the log
AskedAt(k) == [j \in 1..(StopAt(k) - k - 1) |-> log[k + j].src]

\* the source at position i of this Parse holds a value for key
HasKey(i, key) ==
    IF sources[i].type = "env" THEN (sources[i].arg \o key) \in DOMAIN Environ
    ELSE key \in DOMAIN json[i]

\* the positions of the sources of type t, and those of them that hold key
Positions(t) == {i \in 1..Len(sources) : sources[i].type = t}

Holding(t, key) == {i \in Positions(t) : HasKey(i, key)}

\* the sources the extractor e is to ask, in order: the first environment
\* source alone, or the JSON sources up to the first that holds the key
ToAsk(e) ==
    IF e.type = "env"
    THEN IF Positions("env") = {} THEN <<>> ELSE <<Least(Positions("env"))>>
    ELSE IF Holding("json", e.key) = {} THEN Ascending(Positions("json"))
    ELSE Ascending({i \in Positions("json") : i <= Least(Holding("json", e.key))})

\* the extractor whose call is the k-th of the log came upon a source
\* holding its key
Hit(k, e) == AskedAt(k) # <<>> /\ HasKey(AskedAt(k)[Len(AskedAt(k))], e.key)

\* the extractor whose call is the k-th of the log is the last one asked in
\* this Parse
LastExtract(k) == \A j \in (k + 1)..Len(log) : log[j].op # "Extract"


\* where the destination of the flag called name got its value from in a
\* Parse that returned nil
Origins(name) ==
    {o \in {"command line", "extractor", "default"} :
        \/ o = "command line" /\ name \in cli.found
        \/ o = "extractor" /\ name \in DOMAIN matched
        \/ o = "default" /\ name \in found \ cli.found}

\* the extractors of the flag called name that the log says were asked
ExtractsOf(name) == SelectSeq(log, LAMBDA e : e.op = "Extract" /\ e.flag = name)

(***************************************************************************)
(* C1: a flag that gets a value from the command line keeps it to the end  *)
(* of Parse, and none of its extractors is asked, whatever the sources     *)
(* hold: resolution changes no destination that tokenizing filled, a       *)
(* scalar flag supplied once holds that value coerced, and the log has no  *)
(* Extract or Get call for the flag.                                       *)
(***************************************************************************)
CommandLineWins ==
    \A name \in cli.found :
        /\ dest[name] = cli.dest[name]
        /\ Supplied(name, argv) # <<>>
        /\ (Len(Supplied(name, argv)) = 1 /\ flags[name].kind \notin {"*[]string", "*[]int"})
               => dest[name] = Coerced(flags[name].kind, Supplied(name, argv)[1])
        /\ CallsFor("Extract", name) = <<>>
        /\ CallsFor("Get", name) = <<>>

\* Parse returned for a flag set on the command line that a source has too
CommandLineWinsOverSource ==
    /\ pc = "returned"
    /\ failed = ""
    /\ \E name \in cli.found :
           /\ flags[name].kind = "*string"
           /\ dest[name] = <<"v">>
           /\ \E i \in 1..Len(flags[name].Extractors) :
                  CanMatch(name, i) /\ ValueOf(name, i) # dest[name]

(***************************************************************************)
(* C2: for a flag the command line leaves unset, the extractors are asked  *)
(* in their declared order up to the first that matches: the Extract calls *)
(* for the flag are those of the extractors 1..k in order, k is the first  *)
(* extractor that can match, and the destination holds what k found.       *)
(***************************************************************************)
FirstMatchingExtractor ==
    \A name \in DOMAIN matched :
        /\ name \notin cli.found
        /\ CallsFor("Extract", name) = [i \in 1..matched[name] |-> ExtractEv(i, name)]
        /\ \A i \in 1..(matched[name] - 1) : ~CanMatch(name, i)
        /\ CanMatch(name, matched[name])
        /\ dest[name] = ValueOf(name, matched[name])

\* a flag was filled by its first extractor though its second matches too,
\* with another value
FirstOfTwoMatching ==
    /\ pc = "returned"
    /\ \E name \in DOMAIN matched :
           /\ matched[name] = 1
           /\ Len(flags[name].Extractors) = 2
           /\ CanMatch(name, 2)
           /\ ValueOf(name, 2) # dest[name]

(***************************************************************************)
(* C3: among the sources, the order in which they are passed to Parse      *)
(* decides: a flag the command line leaves unset, with an Env and a JSON   *)
(* extractor, that an environment source and a JSON source both have,      *)
(* gets the value of the one of these sources that comes first in the list.*)
(***************************************************************************)
SourceOrderDecides ==
    (pc = "returned" /\ failed = "") =>
        \A name \in DOMAIN flags \ cli.found :
            (/\ \E i \in Having(name) : sources[i].type = "env"
             /\ \E i \in Having(name) : sources[i].type = "json")
                => dest[name] = SourceValue(name, Least(Having(name)))

(***************************************************************************)
(* C4: after a Parse with no argument and no source every destination      *)
(* holds the default its flag was registered with, and Parse returns nil,  *)
(* for each kind of flag: string, bool, int, duration, string list and int *)
(* list.                                                                   *)
(***************************************************************************)
DefaultRoundTrip ==
    (pc = "returned" /\ argv = <<>> /\ sources = <<>>) =>
        /\ ret = Nil
        /\ \A name \in DOMAIN flags : dest[name] = flags[name].Default.v

\* Parse returned with no argument and no source for a flag whose destination
\* held something else than the default before
DefaultReplacesContent ==
    /\ pc = "returned"
    /\ argv = <<>>
    /\ sources = <<>>
    /\ \E name \in DOMAIN flags :
           flags[name].init # flags[name].Default.v /\ dest[name] = flags[name].Default.v

(***************************************************************************)
(* C5: a Parse call on a FlagSet that has been parsed returns nil and      *)
(* changes nothing: the destinations, the found set, the positional        *)
(* arguments and Parsed() stay as they are, and no call is made on a       *)
(* source or an extractor, whatever the call's arguments and sources and   *)
(* whatever the first call returned.                                       *)
(***************************************************************************)
ParseAgainIsNoOp ==
    [][(parsed /\ nparse' = nparse + 1) =>
           /\ ret' = Nil
           /\ pc' = "returned"
           /\ UNCHANGED <<dest, found, args, parsed, log, sources, json, flags>>]_vars

\* a second Parse call has returned on a FlagSet whose first call failed
ParsedAgainAfterError ==
    /\ nparse = 2
    /\ pc = "returned"
    /\ failed = "tokenize"
    /\ errorHandling = ContinueOnError
    /\ ret = Nil
    /\ found # {}


(***************************************************************************)
(* C6, as stated: in the Parse call that is not a no-op, whatever way it   *)
(* ends, every supplied source has Open called exactly once, before any    *)
(* extractor or source is asked, and Close called exactly once, after all  *)
(* of that.                                                                *)
(***************************************************************************)
EverySourceOpenedAndClosed ==
    Ended =>
        /\ \A i \in 1..Len(sources) : Count("Open", i) = 1 /\ Count("Close", i) = 1
        /\ \A k \in At("Open") : \A q \in At("Extract") \cup At("Get") : k < q
        /\ \A k \in At("Close") : \A q \in At("Extract") \cup At("Get") : q < k

(***************************************************************************)
(* C6, amended: when tokenizing fails no source is opened or closed.       *)
(* Otherwise the log of the Parse call is: Open on the sources 1..k in     *)
(* list order, k being the first source whose Open fails or else the last  *)
(* source; then the calls on extractors and their Get calls; then Close on *)
(* every supplied source in list order, opened or not.                     *)
(***************************************************************************)
SourceLifecycle ==
    Ended =>
        IF failed = "tokenize" THEN log = <<>>
        ELSE Lifecycle(Cardinality(At("Open")), Len(sources))

\* Parse returned after the Open of the second of its three sources failed
OpenStopsAtFailure ==
    /\ pc = "returned"
    /\ failed = "open"
    /\ Len(sources) = 3
    /\ Called("Open") = <<1, 2>>
    /\ Called("Close") = <<1, 2, 3>>

(***************************************************************************)
(* C7: when Parse returns an error of a source's Open, of an extractor or  *)
(* of the assignment of a default, Close has been called on every supplied *)
(* source, those that were not opened too, and the error is returned.      *)
(***************************************************************************)
ClosedOnFailure ==
    (pc = "returned" /\ failed \in {"open", "extract", "default"}) =>
        /\ \A i \in 1..Len(sources) : Count("Close", i) = 1
        /\ nparse = 1 => ret # Nil

\* Parse returned the error of an extractor and has closed its two sources
ClosedAfterExtractorError ==
    /\ pc = "returned"
    /\ nparse = 1
    /\ failed = "extract"
    /\ ret # Nil
    /\ Len(sources) = 2
    /\ Called("Close") = <<1, 2>>

(***************************************************************************)
(* C8, as stated: when the next flag token is a bare -name or --name of a  *)
(* flag declared boolean, the destination becomes true, the flag is marked *)
(* found, and the tokens after it all remain to be processed.              *)
(***************************************************************************)
BareBooleanIsTrue ==
    [][(pc = "tokenize" /\ BareBoolean(DropArgs(rest))) => BecomesTrue(DropArgs(rest))]_vars

(***************************************************************************)
(* C8, amended: the same for every boolean flag whose name is not h or     *)
(* help; a bare -h, --h, -help or --help is the request for help even when *)
(* a boolean flag has that name.                                           *)
(***************************************************************************)
BareBooleanIsTrueUnlessHelp ==
    [][(/\ pc = "tokenize"
        /\ BareBoolean(DropArgs(rest))
        /\ flagName(Head(DropArgs(rest))) \notin {<<"h">>, <<"h", "e", "l", "p">>})
           => BecomesTrue(DropArgs(rest))]_vars

\* a bare boolean flag was set and the positional argument after it remains
BareBooleanBeforeArgument ==
    /\ pc = "tokenize"
    /\ Len(argv) >= 2
    /\ argv[1] \in {<<"-", "b">>, <<"-", "-", "b">>}
    /\ rest = Tail(argv)
    /\ isArg(Head(rest))
    /\ <<"b">> \in found
    /\ dest[<<"b">>] = TRUE

(***************************************************************************)
(* C9: after a Parse that returns nil, a list flag the command line        *)
(* supplies N >= 1 times holds the N supplied values, coerced, in order of *)
(* occurrence, and nothing else.                                           *)
(***************************************************************************)
ListHoldsSuppliedValues ==
    (pc = "returned" /\ failed = "") =>
        \A name \in DOMAIN flags :
            (flags[name].kind \in {"*[]string", "*[]int"} /\ Supplied(name, argv) # <<>>)
                => dest[name] = [i \in 1..Len(Supplied(name, argv)) |->
                                    Coerced(ElemKind(flags[name].kind), Supplied(name, argv)[i])]

(***************************************************************************)
(* C10: when tokenizing ends without error, a flag that is not a list and  *)
(* occurs more than once on the command line holds the value of its first  *)
(* occurrence.                                                             *)
(***************************************************************************)
FirstOccurrenceWins ==
    \A name \in cli.found :
        (flags[name].kind \notin {"*[]string", "*[]int"} /\ Len(Supplied(name, argv)) > 1)
            => cli.dest[name] = Coerced(flags[name].kind, Supplied(name, argv)[1])

(***************************************************************************)
(* C11: after a Parse that returns nil, every flag that an extractor       *)
(* filled is in the found set, and NFlags counts it.                       *)
(***************************************************************************)
ExtractedFlagIsFound ==
    (pc = "returned" /\ failed = "") =>
        /\ \A name \in DOMAIN matched : name \in found
        /\ NFlags = Cardinality(found \cup DOMAIN matched)

(***************************************************************************)
(* C12: after a Parse that returns nil, a list flag the command line did   *)
(* not set holds the value of the source that filled it, coerced, or else  *)
(* its default, and nothing of what its destination held before.           *)
(***************************************************************************)
FallbackReplacesList ==
    (pc = "returned" /\ failed = "") =>
        \A name \in DOMAIN flags \ cli.found :
            flags[name].kind \in {"*[]string", "*[]int"} =>
                dest[name] = IF name \in DOMAIN matched
                             THEN Coerced(flags[name].kind, MatchedValue(name))
                             ELSE flags[name].Default.v

(***************************************************************************)
(* C13: a step of Parse in which Set returns an error leaves every         *)
(* destination as it was: the step in which Parse fails, while tokenizing, *)
(* asking an extractor or applying a default, changes no destination.      *)
(***************************************************************************)
FailedSetKeepsDestination ==
    [][(failed = "" /\ failed' \in {"tokenize", "extract", "default"}) => dest' = dest]_vars

(***************************************************************************)
(* C14: when the next flag token, a token with a dash and more that is not *)
(* --, has a name that is empty or begins with - or =, or has nothing      *)
(* after its first =, parsing fails with "invalid flag syntax" and the     *)
(* token itself, and no destination and not the found set is changed.      *)
(***************************************************************************)
MalformedTokenFails ==
    [][(/\ pc = "tokenize"
        /\ FlagToken(DropArgs(rest))
        /\ Malformed(flagName(Head(DropArgs(rest)))))
           => FailsWith(Err("invalid flag syntax", Head(DropArgs(rest))))]_vars

\* parsing failed on -x= after -x=5 had set the flag
MalformedAfterFlag ==
    /\ failed = "tokenize"
    /\ argv = <<<<"-", "x", "=", "5">>, <<"-", "x", "=">>>>
    /\ perr = Err("invalid flag syntax", <<"-", "x", "=">>)
    /\ found = {<<"x">>}
    /\ dest[<<"x">>] = 5

(***************************************************************************)
(* C15: when the next flag token is well formed, is no help alias and      *)
(* names a flag that is not registered, parsing fails with "unknown flag"  *)
(* and the name, with or without inline value and whatever follows, and no *)
(* destination and not the found set is changed.                           *)
(***************************************************************************)
UnknownFlagFails ==
    [][(/\ pc = "tokenize"
        /\ PlainFlag(DropArgs(rest))
        /\ NamePart(flagName(Head(DropArgs(rest)))) \notin DOMAIN flags)
           => FailsWith(Err("unknown flag", NamePart(flagName(Head(DropArgs(rest))))))]_vars

\* parsing failed on -y=5, of no registered flag, after -x=5 had set x
UnknownInlineAfterFlag ==
    /\ failed = "tokenize"
    /\ argv = <<<<"-", "x", "=", "5">>, <<"-", "y", "=", "5">>>>
    /\ perr = Err("unknown flag", <<"y">>)
    /\ found = {<<"x">>}
    /\ dest[<<"x">>] = 5

(***************************************************************************)
(* C16, as stated: when the next flag token is the bare token of a         *)
(* registered flag that is not boolean, and no token follows or the next   *)
(* token begins with a dash, parsing fails with "expecting value for flag" *)
(* and the name, and no destination is changed.                            *)
(***************************************************************************)
MissingValueFails ==
    [][(pc = "tokenize" /\ LacksValue(DropArgs(rest)))
           => FailsWith(Err("expecting value for flag", flagName(Head(DropArgs(rest)))))]_vars

(***************************************************************************)
(* C16, amended: the same for every registered flag that is not boolean    *)
(* and whose name is not h or help; the bare token of a flag of that name  *)
(* is the request for help.                                                *)
(***************************************************************************)
MissingValueFailsUnlessHelp ==
    [][(/\ pc = "tokenize"
        /\ LacksValue(DropArgs(rest))
        /\ flagName(Head(DropArgs(rest))) \notin {<<"h">>, <<"h", "e", "l", "p">>})
           => FailsWith(Err("expecting value for flag", flagName(Head(DropArgs(rest)))))]_vars

\* parsing failed on a bare -n followed by a flag, after -s=a had set s
MissingValueBeforeFlag ==
    /\ failed = "tokenize"
    /\ argv = <<<<"-", "s", "=", "a">>, <<"-", "n">>, <<"-", "n", "=", "1">>>>
    /\ perr = Err("expecting value for flag", <<"n">>)
    /\ found = {<<"s">>}
    /\ dest[<<"n">>] = 0

(***************************************************************************)
(* C17: when the next token that is not positional is --, every token      *)
(* after it is appended to the positional arguments as it is and in order, *)
(* -- itself is not, no destination and not the found set is changed, and  *)
(* tokenizing ends without error with nothing left.                        *)
(***************************************************************************)
DoubleDashEndsFlags ==
    [][(/\ pc = "tokenize"
        /\ DropArgs(rest) # <<>>
        /\ Head(DropArgs(rest)) = <<"-", "-">>)
           => /\ args' = args \o TakeArgs(rest) \o Tail(DropArgs(rest))
              /\ dest' = dest
              /\ found' = found
              /\ perr' = Nil
              /\ rest' = <<>>
              /\ pc' = "open"]_vars

\* Parse returned nil for -- followed by the token of a registered flag,
\* which is a positional argument and has set nothing
FlagAfterDoubleDash ==
    /\ pc = "returned"
    /\ failed = ""
    /\ argv = <<<<"-", "-">>, <<"-", "b">>>>
    /\ Args = <<<<"-", "b">>>>
    /\ dest[<<"b">>] = FALSE
    /\ cli.found = {}

(***************************************************************************)
(* C18: when the next flag token has the name h or help after its one or   *)
(* two dashes, parseNext returns ErrHelp, whether a flag of that name is   *)
(* registered or not: Parse ends by its error policy with ErrHelp, no      *)
(* destination and not the found set is changed, and the tokens after it   *)
(* are not processed.                                                      *)
(***************************************************************************)
HelpTokenStops ==
    [][(/\ pc = "tokenize"
        /\ FlagToken(DropArgs(rest))
        /\ flagName(Head(DropArgs(rest))) \in {<<"h">>, <<"h", "e", "l", "p">>})
           => FailsWith(ErrHelp)]_vars

\* Parse ended with ErrHelp on --h, of no registered flag, after -x=5 had
\* set x and before a token of an unknown flag
HelpBeforeUnknown ==
    /\ failed = "tokenize"
    /\ argv = <<<<"-", "x", "=", "5">>, <<"-", "-", "h">>, <<"-", "y", "=", "5">>>>
    /\ perr = ErrHelp
    /\ found = {<<"x">>}
    /\ <<"h">> \notin DOMAIN flags

(***************************************************************************)
(* C19, as stated: when the next flag token is name=value with a           *)
(* registered name, what follows the first = is coerced into the flag's    *)
(* destination, the flag is marked found, and only that token is taken.    *)
(***************************************************************************)
InlineValueIsSet ==
    [][(pc = "tokenize" /\ InlineFlag(DropArgs(rest)))
           => TakesInline(InlineName(DropArgs(rest)), InlineSet(DropArgs(rest)),
                          DropArgs(rest))]_vars

(***************************************************************************)
(* C19, amended: the same when the flag is a list or has no value yet; the *)
(* token of a flag that is not a list and is already found is taken and    *)
(* ignored, without error.                                                 *)
(***************************************************************************)
InlineValueIsSetOnce ==
    [][(pc = "tokenize" /\ InlineFlag(DropArgs(rest)))
           => IF /\ InlineName(DropArgs(rest)) \in found
                 /\ flags[InlineName(DropArgs(rest))].kind \notin {"*[]string", "*[]int"}
              THEN Ignores(DropArgs(rest))
              ELSE TakesInline(InlineName(DropArgs(rest)), InlineSet(DropArgs(rest)),
                               DropArgs(rest))]_vars

\* -s=a=b has set s to a=b and the token after it remains
InlineValueWithEquals ==
    /\ pc = "tokenize"
    /\ argv = <<<<"-", "s", "=", "a", "=", "b">>, <<"2">>>>
    /\ rest = <<<<"2">>>>
    /\ found = {<<"s">>}
    /\ dest[<<"s">>] = <<"a", "=", "b">>

(***************************************************************************)
(* C20: after a Parse that returns nil, Args() is the sequence of the      *)
(* argument tokens that are neither flag tokens nor values taken by a      *)
(* flag, with every token after a --, as they are and in their order, and  *)
(* NArg() is its length.                                                   *)
(***************************************************************************)
ArgsArePositional ==
    (pc = "returned" /\ failed = "") =>
        /\ Args = Positional(argv)
        /\ NArg = Len(Positional(argv))

\* Parse returned nil for a flag with a positional argument before and after
PositionalAroundFlag ==
    /\ pc = "returned"
    /\ failed = ""
    /\ argv = <<<<"f", "o", "o">>, <<"-", "b">>, <<"f", "o", "o">>>>
    /\ Args = <<<<"f", "o", "o">>, <<"f", "o", "o">>>>
    /\ NArg = 2
    /\ dest[<<"b">>] = TRUE

(***************************************************************************)
(* C21: when an extractor returns an error Parse returns that error at     *)
(* once: the erring extractor is the last one asked for the flag, the flag *)
(* gets no default and is not marked found, and what remains of Parse is   *)
(* the closing of the sources: no flag is resolved after it.               *)
(***************************************************************************)
ExtractorErrorEndsParse ==
    [][/\ (failed = "" /\ failed' = "extract") =>
              \E name \in visited' \ visited : FailsAtExtractor(name)
       /\ (failed = "extract" /\ pc = "defer") =>
              /\ pc' = "returned"
              /\ ret' = ret
              /\ dest' = dest
              /\ found' = found
              /\ matched' = matched
              /\ visited' = visited
              /\ log' = log \o [i \in 1..Len(sources) |-> CloseEv(i)]]_vars

\* Parse returned the error of the first extractor of n, with the second
\* never asked, n without its default and no other flag resolved
SecondExtractorNotAsked ==
    /\ pc = "returned"
    /\ failed = "extract"
    /\ prog = 4
    /\ sources = <<JSONVia("b.json"), EnvPrefix("B_")>>
    /\ visited = {<<"n">>}
    /\ ret = Err("strconv.ParseInt: invalid syntax", <<"x">>)
    /\ ExtractsIn(log) = <<ExtractEv(1, <<"n">>)>>
    /\ dest[<<"n">>] = 0
    /\ dest[<<"s">>] = <<>>
    /\ found = {}

(***************************************************************************)
(* C22: the error-handling policy governs every failure of the Parse call  *)
(* that does the work, those of tokenizing and those of resolution (an     *)
(* Open that fails, an extractor's error, a default that does not coerce): *)
(* with ContinueOnError the error is returned, with ExitOnError exit is    *)
(* called with status 2, with PanicOnError Parse panics with the error.    *)
(***************************************************************************)
PolicyGovernsEveryFailure ==
    (Ended /\ failed # "" /\ nparse = 1) =>
        /\ errorHandling = ContinueOnError => (pc = "returned" /\ ret # Nil)
        /\ errorHandling = ExitOnError => (pc = "exited" /\ exit = <<2>>)
        /\ errorHandling = PanicOnError => (pc = "panicked" /\ ret # Nil)

(***************************************************************************)
(* C23: the registration of a name that is already registered panics and   *)
(* leaves the registry as it was: the flag keeps the descriptor and the    *)
(* destination of its first registration, and the name is in the           *)
(* registration order once.                                                *)
(***************************************************************************)
DuplicateRegistrationPanics ==
    [][(pc = "declare" /\ declared' = declared + 1 /\ NextDecl.Name \in DOMAIN flags) =>
           /\ pc' = "abort"
           /\ flags' = flags
           /\ flagOrder' = flagOrder
           /\ dest' = dest
           /\ flags'[NextDecl.Name] = FirstDecl(NextDecl.Name)
           /\ TimesIn(flagOrder', NextDecl.Name) = 1]_vars

\* the caller declared a twice, with another default the second time
DeclaredTwice ==
    /\ pc = "abort"
    /\ declared = 2
    /\ Programs[prog].decls[2].Name = <<"a">>
    /\ Programs[prog].decls[2].Default = Str(<<"e">>)
    /\ flags[<<"a">>].Default = Str(<<"d">>)
    /\ flagOrder = <<<<"a">>>>

(***************************************************************************)
(* C24: Set with a float64 on an int, int64, uint or uint64 destination    *)
(* returns no error and stores the value without its fraction (truncated   *)
(* toward zero), whatever the float64 is.                                  *)
(***************************************************************************)
FloatIsTruncated ==
    FloatWasSet =>
        /\ ret = Nil
        /\ dest[<<"v">>] = Exact(Whole(LastSet.v))

(***************************************************************************)
(* C24, amended: Set with a float64 on an int, int64, uint or uint64       *)
(* destination returns no error; when the destination's type can           *)
(* represent the value without its fraction (it is not negative for an     *)
(* unsigned destination and not beyond the type's range) that whole number *)
(* is what is stored, never the rounded one.                               *)
(***************************************************************************)
FloatIsTruncatedInRange ==
    FloatWasSet =>
        /\ ret = Nil
        /\ (/\ LastSet.v.e = 0
            /\ flags[<<"v">>].kind \in {"*uint", "*uint64"} => Whole(LastSet.v) >= 0)
               => dest[<<"v">>] = Exact(Whole(LastSet.v))

\* -3.99 was set on an int64 and 3 is not what rounding gives
NegativeFractionDropped ==
    /\ FloatWasSet
    /\ flags[<<"v">>].kind = "*int64"
    /\ LastSet.v = [neg |-> TRUE, ip |-> 3, fr |-> <<"9", "9">>, e |-> 0]
    /\ dest[<<"v">>] = Exact(-3)
    /\ ret = Nil

(***************************************************************************)
(* C25: what Parse leaves in the destinations does not depend on what they *)
(* held before: a Parse that returns nil ends with every destination       *)
(* holding what the same Parse, of the same registrations, arguments and   *)
(* sources, leaves in it when all destinations start from their zero       *)
(* values.                                                                 *)
(***************************************************************************)
PriorContentsIrrelevant ==
    (pc = "returned" /\ parsed /\ failed = "") =>
        \A name \in DOMAIN flags : dest[name] = FromZero(name)

(***************************************************************************)
(* C26: each parseNext call appends the positional tokens its input starts *)
(* with to the positional arguments, processes one flag occurrence, with   *)
(* its value token when it takes one, and returns the tokens after it as   *)
(* they are; the remainder is empty only when the input is exhausted or -- *)
(* was met.                                                                *)
(***************************************************************************)
OneFlagPerCall ==
    [][pc = "tokenize" => OneOccurrence(TakeArgs(rest), DropArgs(rest))]_vars

(***************************************************************************)
(* C26, amended: each parseNext call that returns no error appends the     *)
(* positional tokens its input starts with to the positional arguments,    *)
(* processes one flag occurrence, with its value token when it takes one,  *)
(* and returns the tokens after it as they are; the remainder of such a    *)
(* call is empty only when the input is exhausted or -- was met.  A call   *)
(* that returns an error returns no remainder, whatever follows the        *)
(* failing token.                                                          *)
(***************************************************************************)
OneFlagPerSuccessfulCall ==
    [][pc = "tokenize" =>
           IF perr' = Nil THEN OneOccurrence(TakeArgs(rest), DropArgs(rest))
           ELSE rest' = <<>>]_vars

\* one call took the positional w and the flag s and left -t for the next
OneCallLeavesNextFlag ==
    /\ pc = "tokenize"
    /\ argv = <<<<"w">>, <<"-", "s", "=", "v">>, <<"-", "t">>>>
    /\ rest = <<<<"-", "t">>>>
    /\ args = <<<<"w">>>>
    /\ dest[<<"s">>] = <<"v">>
    /\ dest[<<"t">>] = <<>>
    /\ found = {<<"s">>}

(***************************************************************************)
(* C27: Parse terminates.  Every parseNext call returns fewer tokens than  *)
(* it was given or none, so the tokenizing loop makes at most one turn per *)
(* argument; every turn of the resolution loop is for a flag it has not    *)
(* been through; and a Parse that was called comes to its end.             *)
(***************************************************************************)
ParseTerminates ==
    /\ [][pc = "tokenize" => (Len(rest') < Len(rest) \/ rest' = <<>>)]_vars
    /\ [][(pc = "resolve" /\ pc' # "returned") =>
              (visited \subseteq visited' /\ Cardinality(visited') = Cardinality(visited) + 1)]_vars
    /\ (pc \in {"tokenize", "open", "resolve", "defer"}) ~> Ended

\* a Parse of one flag token and two sources made its turn of the tokenizing
\* loop, went through its three flags and returned
ReturnedAfterEveryLoop ==
    /\ pc = "returned"
    /\ failed = ""
    /\ prog = 4
    /\ argv = <<<<"-", "s", "=", "v">>>>
    /\ Len(sources) = 2
    /\ Cardinality(visited) = 3
    /\ Len(log) > 4

(***************************************************************************)
(* C28: when tokenizing fails under ContinueOnError the failing step       *)
(* changes no destination, so the flags set by earlier tokens keep their   *)
(* command-line values, and Parse returns the error at once: no source is  *)
(* opened, asked or closed, no flag goes through resolution, every flag    *)
(* that no token has marked found holds what its destination held before   *)
(* Parse, not its default, and Parsed() is true.                           *)
(***************************************************************************)
TokenizeFailureIsFrameOnly ==
    /\ [][(failed = "" /\ failed' = "tokenize" /\ errorHandling = ContinueOnError) =>
              /\ dest' = dest
              /\ pc' = "returned"
              /\ ret' = perr'
              /\ ret' # Nil]_vars
    /\ [](/\ failed = "tokenize"
          /\ errorHandling = ContinueOnError
          => /\ pc = "returned"
             /\ parsed
             /\ log = <<>>
             /\ visited = {}
             /\ matched = EmptyMap
             /\ \A name \in DOMAIN flags \ found : dest[name] = flags[name].init)

\* Parse was given a source and returned the error of its second token: s
\* keeps the value of the first, t and n hold neither the source's value nor
\* their default
FailedAfterFirstToken ==
    /\ pc = "returned"
    /\ failed = "tokenize"
    /\ prog = 4
    /\ argv = <<<<"-", "s", "=", "v">>, <<"-", "x">>>>
    /\ sources = <<EnvPrefix("A_")>>
    /\ ret = Err("unknown flag", <<"x">>)
    /\ dest[<<"s">>] = <<"v">>
    /\ dest[<<"t">>] = <<>>
    /\ dest[<<"n">>] = 0
    /\ parsed
    /\ log = <<>>

(***************************************************************************)
(* C29: an Env extractor asks the first environment source of the list and *)
(* no other, a JSON extractor asks the JSON sources in list order up to    *)
(* the first that holds its key; neither asks a source of the other kind,  *)
(* and an extractor that came upon no source holding its key, or had no    *)
(* source of its kind to ask, neither matches its flag nor ends Parse with *)
(* an error.                                                               *)
(***************************************************************************)
ExtractorsAskTheirSources ==
    \A k \in 1..Len(log) :
        log[k].op = "Extract" =>
            /\ AskedAt(k) = ToAsk(flags[log[k].flag].Extractors[log[k].ext])
            /\ \A j \in (k + 1)..(StopAt(k) - 1) :
                   /\ log[j].key = flags[log[k].flag].Extractors[log[k].ext].key
                   /\ log[j].flag = log[k].flag
                   /\ sources[log[j].src].type = flags[log[k].flag].Extractors[log[k].ext].type
            /\ ~Hit(k, flags[log[k].flag].Extractors[log[k].ext]) =>
                   /\ ~(log[k].flag \in DOMAIN matched /\ matched[log[k].flag] = log[k].ext)
                   /\ ~(failed = "extract" /\ LastExtract(k))

\* the first environment source has no B_T, the second has A_T: the Env
\* extractor of t asked the first one only and t was left to its default
SecondEnvSourceNotAsked ==
    /\ prog = 4
    /\ argv = <<>>
    /\ sources = <<EnvPrefix("B_"), EnvPrefix("A_"), JSONVia("b.json")>>
    /\ <<"t">> \in visited
    /\ \E k \in 1..Len(log) : log[k] = GetEv(1, "T", <<"t">>)
    /\ \A k \in 1..Len(log) : log[k] # GetEv(2, "T", <<"t">>)
    /\ <<"t">> \notin DOMAIN matched
    /\ dest[<<"t">>] = <<>>

(***************************************************************************)
(* C30: after a Parse that ran to its end and returned nil every flag has  *)
(* exactly one origin.  A flag the command line set holds what tokenizing  *)
(* left and none of its extractors was asked; a flag an extractor matched  *)
(* holds what one Set of that extractor's source value made of its         *)
(* pre-Parse destination, and no later extractor was asked; every other    *)
(* flag had all its extractors asked in vain, holds its declared default   *)
(* and is in the found set.                                                *)
(***************************************************************************)
EveryFlagHasOneOrigin ==
    (pc = "returned" /\ failed = "") =>
        \A name \in DOMAIN flags :
            /\ Cardinality(Origins(name)) = 1
            /\ name \in cli.found =>
                   /\ dest[name] = cli.dest[name]
                   /\ ExtractsOf(name) = <<>>
            /\ name \in DOMAIN matched =>
                   /\ dest[name] = Set(flags[name].kind, flags[name].init,
                                       MatchedValue(name)).val
                   /\ ExtractsOf(name) = [i \in 1..matched[name] |-> ExtractEv(i, name)]
            /\ name \notin cli.found \cup DOMAIN matched =>
                   /\ dest[name] = flags[name].Default.v
                   /\ name \in found
                   /\ ExtractsOf(name) =
                          [i \in 1..Len(flags[name].Extractors) |-> ExtractEv(i, name)]

\* one Parse that returned nil with a flag of each origin: s from the command
\* line, t from its second extractor, n from its default
OneFlagOfEachOrigin ==
    /\ pc = "returned"
    /\ failed = ""
    /\ ret = Nil
    /\ prog = 4
    /\ argv = <<<<"-", "s", "=", "v">>>>
    /\ sources = <<EnvPrefix("A_")>>
    /\ Origins(<<"s">>) = {"command line"}
    /\ Origins(<<"t">>) = {"extractor"}
    /\ Origins(<<"n">>) = {"default"}
    /\ dest[<<"s">>] = <<"v">>
    /\ dest[<<"t">>] = <<"f">>
    /\ dest[<<"n">>] = 7

====
